---- MODULE Spec2Model ----
(***************************************************************************)
(* Inventory reconciliation and soft-delete ledger of the warehouse        *)
(* dashboard (src/warehouse_dashboard.py).                                 *)
(*                                                                         *)
(* A DataFrame is a record [columns, rows]: the set of its column names    *)
(* and the sequence of its rows, each row a function from column name to   *)
(* cell.  A cell is NaN (missing, None), Num(n) (a number) or Txt(s) (a    *)
(* text).  The text of a SKU cell is a sequence of one-character strings,  *)
(* so that str.strip() is computed, not assumed.  Quantities are integers  *)
(* (the float fractions of pandas are not modelled) and SKU cells hold     *)
(* text or NaN (numeric SKU cells are not modelled).                       *)
(*                                                                         *)
(* Every row also carries "rid", a ghost mark of the physical row that no  *)
(* code reads: it lets properties follow one row through an operation.     *)
(***************************************************************************)
EXTENDS Integers, Sequences, FiniteSets, TLC

VARIABLES full_inventory, loc_cols, deleted_skus, change_log, now, last, db,
          uploaded_file, session_state

\* uploaded_file is what st.file_uploader returns to a run (line 556): << >> for
\* None, <<file>> while the widget holds a sheet

vars == <<full_inventory, loc_cols, deleted_skus, change_log, now, last, db,
          uploaded_file, session_state>>

\* ---------------------------------------------------------------- bounds
MaxRows == 2
MaxSteps == 4
MaxUploads == 2
MaxWideRows == 1
MaxLocs == 1
MaxPasses == 2
MaxAppSteps == 3
MaxAppRows == 2
MaxRuns == 4

\* ----------------------------------------------------------------- cells
NaN == <<>>
Num(n) == <<n>>
Txt(s) == <<"t", s>>
isna(c) == c = NaN
num(c) == c[1]
text(c) == c[2]

Range(s) == {s[i] : i \in DOMAIN s}

\* pd.to_numeric(errors='coerce'): a number stays, text and missing give NaN
to_numeric(c) == IF Len(c) = 1 THEN c ELSE NaN

fillna(c, v) == IF isna(c) THEN Num(v) ELSE c

clip_lower(n, lo) == IF n < lo THEN lo ELSE n

clip(n, lo, hi) == IF n < lo THEN lo ELSE IF n > hi THEN hi ELSE n

\* str.strip() on a sequence of characters (the blank is the only whitespace drawn)
RECURSIVE lstrip(_)
lstrip(s) == IF s # <<>> /\ Head(s) = " " THEN lstrip(Tail(s)) ELSE s

RECURSIVE rstrip(_)
rstrip(s) == IF s # <<>> /\ s[Len(s)] = " " THEN rstrip(SubSeq(s, 1, Len(s) - 1)) ELSE s

strip(s) == rstrip(lstrip(s))

\* ------------------------------------------------------------ DataFrames
EmptyDF == [columns |-> {}, rows |-> <<>>]

\* DataFrame.empty: no rows or no columns
empty(df) == df.rows = <<>> \/ df.columns = {}

\* df[col] = F(row), for every row (the column is added when absent)
WithCol(df, col, F(_)) ==
    [columns |-> df.columns \cup {col},
     rows |-> [i \in DOMAIN df.rows |->
                 [k \in DOMAIN df.rows[i] \cup {col} |->
                     IF k = col THEN F(df.rows[i]) ELSE df.rows[i][k]]]]

\* df[mask], followed or not by reset_index: the rows for which P holds, in order
Filter(df, P(_)) == [columns |-> df.columns, rows |-> SelectSeq(df.rows, P)]

\* for col in cols: if col in df.columns: df[col] = to_numeric(df[col]).fillna(0)
CoerceNumeric(df, cols) ==
    [columns |-> df.columns,
     rows |-> [i \in DOMAIN df.rows |->
                 [k \in DOMAIN df.rows[i] |->
                     IF k \in Range(cols) /\ k \in df.columns
                     THEN fillna(to_numeric(df.rows[i][k]), 0)
                     ELSE df.rows[i][k]]]]

\* row[cols].sum(): NaN is skipped
RECURSIVE SumCols(_, _)
SumCols(r, cols) ==
    IF cols = <<>> THEN 0
    ELSE (IF isna(r[Head(cols)]) THEN 0 ELSE num(r[Head(cols)])) + SumCols(r, Tail(cols))

\* duplicated(keep=False): every row whose SKU occurs in another row
duplicated_KeepFalse(df) ==
    Cardinality({i \in DOMAIN df.rows :
                    \E j \in DOMAIN df.rows : j # i /\ df.rows[j]["SKU"] = df.rows[i]["SKU"]})

\* df['SKU'].duplicated().sum(): rows whose SKU occurred in an earlier row
duplicated(df) ==
    Cardinality({i \in DOMAIN df.rows :
                    \E j \in 1..(i - 1) : df.rows[j]["SKU"] = df.rows[i]["SKU"]})

required_cols == <<"SKU", "DESCR", "QTYHOLD", "STDCUBE", "QTYAVAILABLE">>

known_loc_cols == <<"21KCH2", "21KCH5", "3K-M45", "6KMZ-2", "NA", "YARD">>

numeric_cols(locs) == <<"QTYHOLD", "STDCUBE", "QTYAVAILABLE", "QTY", "DELETED">> \o locs

Active == Txt("Active")
Deleted == Txt("Deleted")

\* SyncStatus with the zero-quantity rule writing Status alone
SyncStatus_StatusOnly(df0) ==
    LET df1 == IF "DELETED" \notin df0.columns
               THEN WithCol(df0, "DELETED", LAMBDA r : Num(0)) ELSE df0
        df2 == WithCol(df1, "DELETED", LAMBDA r : Num(clip(num(r["DELETED"]), 0, 1)))
        df3 == WithCol(df2, "Status",
                       LAMBDA r : IF num(r["DELETED"]) = 1 THEN Deleted ELSE Active)
        mask_zero(r) == num(r["QTY"]) = 0 /\ r["Status"] = Active
    IN  [columns |-> df3.columns,
         rows |-> [i \in DOMAIN df3.rows |->
                     IF mask_zero(df3.rows[i])
                     THEN [df3.rows[i] EXCEPT !["Status"] = Deleted]
                     ELSE df3.rows[i]]]

\* SyncStatus without the zero-quantity rule
SyncStatus_NoAutoMark(df0) ==
    LET df1 == IF "DELETED" \notin df0.columns
               THEN WithCol(df0, "DELETED", LAMBDA r : Num(0)) ELSE df0
        df2 == WithCol(df1, "DELETED", LAMBDA r : Num(clip(num(r["DELETED"]), 0, 1)))
    IN  WithCol(df2, "Status",
                LAMBDA r : IF num(r["DELETED"]) = 1 THEN Deleted ELSE Active)

\* SyncStatus clearing the flag of a row that has stock
SyncStatus_Reactivates(df0) ==
    LET df1 == IF "DELETED" \notin df0.columns
               THEN WithCol(df0, "DELETED", LAMBDA r : Num(0)) ELSE df0
        df2 == WithCol(df1, "DELETED",
                       LAMBDA r : IF num(r["QTY"]) > 0 THEN Num(0)
                                  ELSE Num(clip(num(r["DELETED"]), 0, 1)))
        df3 == WithCol(df2, "Status",
                       LAMBDA r : IF num(r["DELETED"]) = 1 THEN Deleted ELSE Active)
        mask_zero(r) == num(r["QTY"]) = 0 /\ r["Status"] = Active
    IN  [columns |-> df3.columns,
         rows |-> [i \in DOMAIN df3.rows |->
                     IF mask_zero(df3.rows[i])
                     THEN [df3.rows[i] EXCEPT !["Status"] = Deleted, !["DELETED"] = Num(1)]
                     ELSE df3.rows[i]]]

\* DELETED clipped to {0,1}, Status from DELETED, then zero-quantity Active rows
\* marked Deleted (lines 179-190 and 260-270 are the same text)
SyncStatus(df0) ==
    LET df1 == IF "DELETED" \notin df0.columns
               THEN WithCol(df0, "DELETED", LAMBDA r : Num(0)) ELSE df0
        df2 == WithCol(df1, "DELETED", LAMBDA r : Num(clip(num(r["DELETED"]), 0, 1)))
        df3 == WithCol(df2, "Status",
                       LAMBDA r : IF num(r["DELETED"]) = 1 THEN Deleted ELSE Active)
        mask_zero(r) == num(r["QTY"]) = 0 /\ r["Status"] = Active
    IN  [columns |-> df3.columns,
         rows |-> [i \in DOMAIN df3.rows |->
                     IF mask_zero(df3.rows[i])
                     THEN [df3.rows[i] EXCEPT !["Status"] = Deleted, !["DELETED"] = Num(1)]
                     ELSE df3.rows[i]]]

\* process_edited_df adding the location sum onto QTY instead of replacing it
process_edited_df_AddsToQty(df0, locs) ==
    LET df1 == CoerceNumeric(df0, numeric_cols(locs))
        df2 == WithCol(df1, "QTY", LAMBDA r : Num(num(r["QTY"]) + SumCols(r, locs)))
        df3 == WithCol(df2, "QTY", LAMBDA r : Num(clip_lower(num(r["QTY"]), 0)))
        df4 == SyncStatus(df3)
        df5 == Filter(df4, LAMBDA r : ~isna(r["SKU"]))
        df6 == WithCol(df5, "SKU", LAMBDA r : Txt(strip(text(r["SKU"]))))
    IN  Filter(df6, LAMBDA r : r["SKU"] # Txt(<<>>))

\* the second definition of process_edited_df, the one in force
process_edited_df(df0, locs) ==
    LET df1 == CoerceNumeric(df0, numeric_cols(locs))
        df2 == WithCol(df1, "QTY", LAMBDA r : Num(SumCols(r, locs)))
        df3 == WithCol(df2, "QTY", LAMBDA r : Num(clip_lower(num(r["QTY"]), 0)))
        df4 == SyncStatus(df3)
        df5 == Filter(df4, LAMBDA r : ~isna(r["SKU"]))
        df6 == WithCol(df5, "SKU", LAMBDA r : Txt(strip(text(r["SKU"]))))
    IN  Filter(df6, LAMBDA r : r["SKU"] # Txt(<<>>))

\* process_uploaded_df after pd.read_excel: the table, the duplicate count of the
\* warning and the location columns; n is the number of values the return
\* statement hands back (line 150 returns two, line 196 three) and msg the
\* columns named by the message of line 150
process_uploaded_df(file) ==
    LET missing == SelectSeq(required_cols, LAMBDA c : c \notin file.columns)
        locs == SelectSeq(known_loc_cols, LAMBDA c : c \in file.columns)
        df1 == CoerceNumeric(file, numeric_cols(locs))
        df2 == Filter(df1, LAMBDA r : ~isna(r["SKU"]))
        df3 == IF "QTY" \notin df2.columns
               THEN WithCol(df2, "QTY", LAMBDA r : Num(SumCols(r, locs)))
               ELSE WithCol(df2, "QTY",
                            LAMBDA r : IF isna(r["QTY"]) THEN Num(SumCols(r, locs))
                                       ELSE r["QTY"])
        df4 == WithCol(df3, "QTY", LAMBDA r : Num(clip_lower(num(r["QTY"]), 0)))
        df5 == SyncStatus(df4)
    IN  IF missing # <<>>
        THEN [ok |-> FALSE, n |-> 2, msg |-> missing,
              df |-> EmptyDF, dups |-> 0, locs |-> <<>>]
        ELSE [ok |-> TRUE, n |-> 3, msg |-> <<>>,
              df |-> df5, dups |-> duplicated(df5), locs |-> locs]

\* validate_data: the number of rows whose location sum exceeds QTYAVAILABLE,
\* and for each of them what is returned about it, its SKU
validate_data(df, locs) ==
    LET violations == SelectSeq(df.rows,
                                LAMBDA r : SumCols(r, locs) > num(r["QTYAVAILABLE"]))
    IN  IF locs = <<>> \/ empty(df)
        THEN [count |-> 0, rows |-> <<>>]
        ELSE [count |-> Len(violations),
              rows |-> [i \in DOMAIN violations |-> [SKU |-> violations[i]["SKU"]]]]

\* apply_filters with the status filter and the location filter of the sidebar
\* (the two text searches are left empty)
apply_filters(df, status_filter, location_filter, locs) ==
    LET d1 == IF status_filter # "All"
              THEN Filter(df, LAMBDA r : r["Status"] = Txt(status_filter)) ELSE df
    IN  IF location_filter # locs /\ location_filter # <<>>
        THEN Filter(d1, LAMBDA r : \E c \in Range(location_filter) : num(r[c]) > 0)
        ELSE d1

\* ------------------------------------------------------------ the session
\* st.session_state: full_inventory (the active table), loc_cols, deleted_skus
\* (the ledger: the deleted rows in order, each with its deleted_timestamp),
\* change_log; now is the clock datetime.now() reads.  last is a ghost record of
\* the last operation and its inputs, read by no operation; its alert is what
\* the validation alert of a script run shows under the filters of that run, its
\* dups is the
\* count the duplicate warning of that operation reports (lines 193-194, 281-283)
\* and its shown the error a failed upload puts on the screen.
NA == Txt(<<"N", "/", "A">>)

LogEntry(t, action, sku, description) ==
    [timestamp |-> t, action |-> action, SKU |-> sku, description |-> description]

\* LogEach writing a single entry with the number of SKUs
LogEach_Aggregate(t, action, skus) ==
    <<LogEntry(t, action, NA, Num(Len(skus)))>>

\* one entry per SKU of skus (a sequence), all of one action
LogEach(t, action, skus) ==
    [i \in DOMAIN skus |-> LogEntry(t, action, skus[i], skus[i])]

\* the orders in which a Python set, or a multiselect, can hand out its elements
Orders(S) ==
    {s \in [1..Cardinality(S) -> S] : \A i, j \in DOMAIN s : i # j => s[i] # s[j]}

skus_of(df) == {df.rows[i]["SKU"] : i \in DOMAIN df.rows}

\* set(df['SKU'].dropna().unique())
sku_set(df) == {c \in skus_of(df) : ~isna(c)}

\* ------------------------------------------- the persisted app (app.py)
\* The tables of app.py's database: inventory (class Inventory), logs (class
\* Log) and transactions (class Transaction), each in insertion order.  An item
\* carries id, user_id, sku and qty_available; description, location and the
\* timestamps are carried by no statement modelled here and are left out.
\* user_sku_uc tells whether the inventory table carries the constraint
\* _user_sku_uc of lines 316-318.
EmptyDB == [inventory |-> <<>>, logs |-> <<>>, transactions |-> <<>>,
            user_sku_uc |-> TRUE]

\* the users of the app: init_db creates the admin (lines 344-365), a user who
\* registers gets the role staff (line 387)
AppUsers == {1, 2}
user_role(user_id) == IF user_id = 1 THEN "admin" ELSE "staff"

\* st.session_state of a user's session, as far as lines 740-772 read it:
\* confirm_delete, and the rows of st_dataframe_selection
NewSession == [confirm_delete |-> FALSE, st_dataframe_selection |-> <<>>]

\* Inventory.id, an integer primary key: one more than the largest id in the table
NextId(table) ==
    IF table = <<>> THEN 1
    ELSE 1 + (CHOOSE m \in {table[i].id : i \in DOMAIN table} :
                 \A i \in DOMAIN table : table[i].id <= m)

\* db.query(Inventory).filter_by(user_id=user_id).all()
load_inventory_data(d, user_id) ==
    SelectSeq(d.inventory, LAMBDA item : item.user_id = user_id)

\* the default of add_log_entry's sku and details
None == "None"

\* app.py, lines 507-515
add_log_entry(d, user_id, action, sku, details) ==
    [d EXCEPT !.logs = Append(@, [user_id |-> user_id, action |-> action,
                                  sku |-> sku, details |-> details])]

\* app.py, lines 550-564
record_transaction(d, user_id, sku, trans_type, quantity_change, current_qty) ==
    [d EXCEPT !.transactions =
        Append(@, [user_id |-> user_id, sku |-> sku, type |-> trans_type,
                   quantity_change |-> quantity_change,
                   current_qty |-> current_qty])]

\* __table_args__ of Inventory (lines 315-317): one row per (user_id, sku);
\* the insert of a second one raises IntegrityError where the table carries
\* the constraint
IntegrityError(d, user_id, sku) ==
    /\ d.user_sku_uc
    /\ \E i \in DOMAIN d.inventory :
          d.inventory[i].user_id = user_id /\ d.inventory[i].sku = sku

\* app.py, lines 425-440: the insert commits on its own, then the log entry and
\* the transaction commit on their own; a rejected insert is rolled back
add_inventory_item(d, user_id, sku, qty_available) ==
    IF IntegrityError(d, user_id, sku)
    THEN [db |-> d, ok |-> FALSE]
    ELSE LET added == [d EXCEPT !.inventory =
                           Append(@, [id |-> NextId(d.inventory), user_id |-> user_id,
                                      sku |-> sku, qty_available |-> qty_available])]
             logged == add_log_entry(added, user_id, "ADD", sku,
                                     [qty |-> qty_available])
         IN  [db |-> record_transaction(logged, user_id, sku, "IN",
                                        qty_available, qty_available),
              ok |-> TRUE]

\* app.py, lines 442-471: the item with that id among the user's items gets the
\* new sku and quantity; the commit of line 453 raises IntegrityError when
\* another item of the user has the sku and the table carries the constraint,
\* and the change is rolled back; otherwise an EDIT entry is logged and, when
\* the quantity changed, a transaction recorded under the new sku
update_inventory_item(d, user_id, item_id, sku, qty_available) ==
    LET hits == {i \in DOMAIN d.inventory :
                    d.inventory[i].id = item_id /\ d.inventory[i].user_id = user_id}
        i == CHOOSE i \in hits : \A j \in hits : i <= j
        old_qty == d.inventory[i].qty_available
        old_sku == d.inventory[i].sku
        updated == [d EXCEPT !.inventory[i].sku = sku,
                             !.inventory[i].qty_available = qty_available]
        logged == add_log_entry(updated, user_id, "EDIT", sku,
                                [old_sku |-> old_sku, new_sku |-> sku,
                                 old_qty |-> old_qty, new_qty |-> qty_available])
    IN  IF hits = {} THEN [db |-> d, ok |-> FALSE]
        ELSE IF /\ d.user_sku_uc
                /\ \E j \in DOMAIN d.inventory :
                      /\ j # i
                      /\ d.inventory[j].user_id = user_id
                      /\ d.inventory[j].sku = sku
        THEN [db |-> d, ok |-> FALSE]
        ELSE [db |-> IF qty_available # old_qty
                     THEN record_transaction(logged, user_id, sku,
                              IF qty_available > old_qty THEN "IN" ELSE "OUT",
                              IF qty_available > old_qty THEN qty_available - old_qty
                              ELSE old_qty - qty_available,
                              qty_available)
                     ELSE logged,
              ok |-> TRUE]

\* delete_inventory_item looking the item up by its id alone
delete_inventory_item_AnyUser(d, user_id, item_id) ==
    LET hits == {i \in DOMAIN d.inventory : d.inventory[i].id = item_id}
        i == CHOOSE i \in hits : \A j \in hits : i <= j
        removed == [d EXCEPT !.inventory =
                       SubSeq(@, 1, i - 1) \o SubSeq(@, i + 1, Len(@))]
    IN  IF hits = {} THEN [db |-> d, ok |-> FALSE]
        ELSE [db |-> add_log_entry(removed, user_id, "DELETE", d.inventory[i].sku,
                                   [sku |-> d.inventory[i].sku]),
              ok |-> TRUE]

\* app.py, lines 473-486: the item with that id among the user's items is
\* deleted and a DELETE entry logged; no transaction is recorded
delete_inventory_item(d, user_id, item_id) ==
    LET hits == {i \in DOMAIN d.inventory :
                    d.inventory[i].id = item_id /\ d.inventory[i].user_id = user_id}
        i == CHOOSE i \in hits : \A j \in hits : i <= j
        removed == [d EXCEPT !.inventory =
                       SubSeq(@, 1, i - 1) \o SubSeq(@, i + 1, Len(@))]
    IN  IF hits = {} THEN [db |-> d, ok |-> FALSE]
        ELSE [db |-> add_log_entry(removed, user_id, "DELETE", d.inventory[i].sku,
                                   [sku |-> d.inventory[i].sku]),
              ok |-> TRUE]

\* clear_all_logs deleting the log entries of every user
clear_all_logs_EveryUser(d, user_id) ==
    [d EXCEPT !.logs = <<>>]

\* app.py, lines 517-529: the log entries of the user are deleted
clear_all_logs(d, user_id) ==
    [d EXCEPT !.logs = SelectSeq(@, LAMBDA e : e.user_id # user_id)]

\* the columns the upload handler asks for (line 845)
upload_required_cols == <<"SKU", "Description", "QTYAVAILABLE", "Location">>

\* float(row['QTYAVAILABLE']) raises ValueError on a text that is not a number
ValueError(cell) == ~isna(cell) /\ isna(to_numeric(cell))

\* app.py, lines 854-857: the rows of the sheet are added one by one; the
\* conversion of a quantity that is no number raises and ends the loop (line
\* 861), a row that add_inventory_item rejects is passed over
RECURSIVE iterrows(_, _, _, _)
iterrows(d, user_id, rows, success_count) ==
    IF rows = <<>>
    THEN [db |-> d, raised |-> FALSE, success_count |-> success_count]
    ELSE IF ValueError(Head(rows)["QTYAVAILABLE"])
    THEN [db |-> d, raised |-> TRUE, success_count |-> success_count]
    ELSE LET res == add_inventory_item(d, user_id, text(Head(rows)["SKU"]),
                                       num(to_numeric(Head(rows)["QTYAVAILABLE"])))
         IN  iterrows(res.db, user_id, Tail(rows),
                      success_count + IF res.ok THEN 1 ELSE 0)

\* app.py, lines 843-862: the sheet is checked for its columns; the user's
\* inventory is deleted and the deletion committed (lines 851-852); the rows are
\* added; the UPLOAD log entry is written when the loop ran to its end
process_uploaded_file(d, user_id, file) ==
    IF \E i \in DOMAIN upload_required_cols : upload_required_cols[i] \notin Range(file.columns)
    THEN [db |-> d, error |-> "Missing required columns", success_count |-> 0]
    ELSE LET cleared == [d EXCEPT !.inventory =
                            SelectSeq(@, LAMBDA item : item.user_id # user_id)]
             res == iterrows(cleared, user_id, file.rows, 0)
         IN  IF res.raised
             THEN [db |-> res.db, error |-> "Error processing file",
                   success_count |-> res.success_count]
             ELSE [db |-> add_log_entry(res.db, user_id, "UPLOAD", None,
                                        [count |-> res.success_count]),
                   error |-> "", success_count |-> res.success_count]

NoOp == [op |-> "Init", pre |-> EmptyDF, preLedger |-> <<>>, edited |-> EmptyDF,
         sel |-> {}, merged |-> EmptyDF, shown |-> [error |-> "", columns |-> <<>>],
         dups |-> 0, status_filter |-> "All", location_filter |-> <<>>,
         alert |-> [count |-> 0, rows |-> <<>>],
         user_id |-> 0, preDb |-> EmptyDB, success_count |-> 0, log |-> <<>>,
         item_id |-> 0, ok |-> TRUE]

Init ==
    /\ full_inventory = EmptyDF
    /\ loc_cols = <<>>
    /\ deleted_skus = <<>>
    /\ change_log = <<>>
    /\ now = 0
    /\ last = NoOp
    /\ db = EmptyDB
    /\ uploaded_file = <<>>
    /\ session_state = [u \in AppUsers |-> NewSession]

\* the rows of an uploaded sheet, marked 1..n
Marked(file) ==
    [columns |-> file.columns,
     rows |-> [i \in DOMAIN file.rows |-> ("rid" :> i) @@ file.rows[i]]]

\* main, lines 562-580: a sheet with every required column is uploaded
UploadOf(file) ==
    LET res == process_uploaded_df(Marked(file))
    IN  /\ now < MaxSteps
        /\ res.ok
        /\ full_inventory' = res.df
        /\ loc_cols' = res.locs
        /\ deleted_skus' = <<>>
        /\ change_log' = Append(change_log,
                                LogEntry(now, "Upload", NA, Num(Len(res.df.rows))))
        /\ now' = now + 1
        /\ last' = [NoOp EXCEPT !.op = "Upload", !.pre = full_inventory,
                                !.preLedger = deleted_skus, !.edited = file,
                                !.dups = res.dups,
                                !.log = IF uploaded_file = <<file>> THEN last.log
                                        ELSE change_log]
        /\ uploaded_file' = <<file>>
        /\ UNCHANGED <<db, session_state>>

\* main, lines 562-583: a sheet that lacks a required column is uploaded.  Line
\* 564 unpacks the return value into three names: the two values of line 150
\* raise ValueError there and the run ends with that exception on the screen;
\* three values with None first would reach st.error(dup_warn) and st.stop().
\* shown is what the run puts on the screen.
UploadFailsOf(file) ==
    LET res == process_uploaded_df(Marked(file))
    IN  /\ now < MaxSteps
        /\ ~res.ok
        /\ last' = [NoOp EXCEPT !.op = "UploadFailed", !.pre = full_inventory,
                                !.preLedger = deleted_skus, !.edited = file,
                                !.shown = IF res.n = 3
                                          THEN [error |-> "Missing required columns",
                                                columns |-> res.msg]
                                          ELSE [error |-> "ValueError",
                                                columns |-> <<>>]]
        /\ UNCHANGED <<full_inventory, loc_cols, deleted_skus, change_log, now, db,
                       session_state>>
        /\ uploaded_file' = <<file>>

\* the rows of the ledger without their deleted_timestamp (deleted_df, lines 783-784)
ledger_rows(ledger) == [i \in DOMAIN ledger |-> ledger[i].row]

\* EditOf replacing the ledger entries of a SKU that is deleted again
EditOf_ReplacesSameSku(edited, delOrder, addOrder) ==
    LET edit_inventory == full_inventory
        previous_skus == sku_set(edit_inventory)
        current_skus == sku_set(edited)
        deleted_skus_set == previous_skus \ current_skus
        added_skus_set == current_skus \ previous_skus
        deleted_rows_data ==
            SelectSeq(edit_inventory.rows, LAMBDA r : r["SKU"] \in deleted_skus_set)
    IN  /\ now < MaxSteps
        /\ ~empty(full_inventory)
        /\ uploaded_file = <<>>
        /\ edited # edit_inventory
        /\ delOrder \in Orders(deleted_skus_set)
        /\ addOrder \in Orders(added_skus_set)
        /\ deleted_skus' =
               SelectSeq(deleted_skus, LAMBDA e : e.row["SKU"] \notin deleted_skus_set) \o
               [i \in DOMAIN deleted_rows_data |->
                   [row |-> deleted_rows_data[i], deleted_timestamp |-> now]]
        /\ change_log' = change_log \o LogEach(now, "Delete", delOrder)
                                    \o LogEach(now, "Add", addOrder)
        /\ now' = now + 1
        /\ last' = [NoOp EXCEPT !.op = "Edit", !.pre = full_inventory,
                                !.preLedger = deleted_skus, !.edited = edited]
        /\ UNCHANGED <<full_inventory, loc_cols, db, uploaded_file, session_state>>

\* main, lines 706-747: the data editor returned `edited`, which differs from the
\* active table.  The rows of the SKUs that left are appended to the ledger, Delete
\* and Add entries are logged, and then line 746 applies ~ to the bool that
\* DataFrame.equals returned and line 747 calls .any() on the resulting int: the
\* run ends there with an AttributeError, so lines 748-766 (process_edited_df and
\* the assignment of full_inventory) are never reached.
EditOf(edited, delOrder, addOrder) ==
    LET edit_inventory == full_inventory
        previous_skus == sku_set(edit_inventory)
        current_skus == sku_set(edited)
        deleted_skus_set == previous_skus \ current_skus
        added_skus_set == current_skus \ previous_skus
        deleted_rows_data ==
            SelectSeq(edit_inventory.rows, LAMBDA r : r["SKU"] \in deleted_skus_set)
    IN  /\ now < MaxSteps
        /\ ~empty(full_inventory)
        /\ uploaded_file = <<>>
        /\ edited # edit_inventory
        /\ delOrder \in Orders(deleted_skus_set)
        /\ addOrder \in Orders(added_skus_set)
        /\ deleted_skus' = deleted_skus \o
               [i \in DOMAIN deleted_rows_data |->
                   [row |-> deleted_rows_data[i], deleted_timestamp |-> now]]
        /\ change_log' = change_log \o LogEach(now, "Delete", delOrder)
                                    \o LogEach(now, "Add", addOrder)
        /\ now' = now + 1
        /\ last' = [NoOp EXCEPT !.op = "Edit", !.pre = full_inventory,
                                !.preLedger = deleted_skus, !.edited = edited]
        /\ UNCHANGED <<full_inventory, loc_cols, db, uploaded_file, session_state>>

\* a + b on two cells: NaN if either is NaN
plus(a, b) == IF isna(a) \/ isna(b) THEN NaN ELSE Num(num(a) + num(b))

\* MergeRow writing the value of restore_row over the existing one
MergeRow_Overwrites(existing, restore_row, locs) ==
    LET numeric_cols_to_merge == <<"QTY", "QTYHOLD", "STDCUBE", "QTYAVAILABLE">> \o locs
        summed == [k \in DOMAIN existing |->
                     IF /\ k \in Range(numeric_cols_to_merge)
                        /\ k \in DOMAIN restore_row
                     THEN restore_row[k]
                     ELSE existing[k]]
    IN  IF restore_row["DELETED"] = Num(1)
        THEN [summed EXCEPT !["DELETED"] = Num(1), !["Status"] = Deleted]
        ELSE summed

\* MergeRow leaving DELETED and Status of the existing row alone
MergeRow_KeepsFlag(existing, restore_row, locs) ==
    LET numeric_cols_to_merge == <<"QTY", "QTYHOLD", "STDCUBE", "QTYAVAILABLE">> \o locs
    IN  [k \in DOMAIN existing |->
            IF /\ k \in Range(numeric_cols_to_merge)
               /\ k \in DOMAIN restore_row
            THEN plus(existing[k], restore_row[k])
            ELSE existing[k]]

\* lines 819-827: the numeric columns of restore_row added onto one existing row,
\* and the row marked Deleted when restore_row['DELETED'] == 1
MergeRow(existing, restore_row, locs) ==
    LET numeric_cols_to_merge == <<"QTY", "QTYHOLD", "STDCUBE", "QTYAVAILABLE">> \o locs
        summed == [k \in DOMAIN existing |->
                     IF /\ k \in Range(numeric_cols_to_merge)
                        /\ k \in DOMAIN restore_row
                     THEN plus(existing[k], restore_row[k])
                     ELSE existing[k]]
    IN  IF restore_row["DELETED"] = Num(1)
        THEN [summed EXCEPT !["DELETED"] = Num(1), !["Status"] = Deleted]
        ELSE summed

\* restore_rows[restore_rows['SKU'] == sku].iloc[0]
FirstWithSku(rows, sku) ==
    rows[CHOOSE i \in DOMAIN rows :
            /\ rows[i]["SKU"] = sku
            /\ \A j \in 1..(i - 1) : rows[j]["SKU"] # sku]

\* lines 811-827: every existing row of a conflicting SKU gets the first restore
\* row of that SKU merged in
MergeConflicts(df, restore_rows, locs) ==
    LET conflicting_skus == Range([i \in DOMAIN restore_rows |-> restore_rows[i]["SKU"]])
                            \cap skus_of(df)
    IN  [columns |-> df.columns,
         rows |-> [i \in DOMAIN df.rows |->
                     IF df.rows[i]["SKU"] \in conflicting_skus
                     THEN MergeRow(df.rows[i],
                                   FirstWithSku(restore_rows, df.rows[i]["SKU"]), locs)
                     ELSE df.rows[i]]]

\* lines 829-831: the restore rows of SKUs that are not in the active table are
\* appended to it
Reinsert(df, merged, restore_rows) ==
    [columns |-> merged.columns,
     rows |-> merged.rows \o
              SelectSeq(restore_rows, LAMBDA r : r["SKU"] \notin skus_of(df))]

\* WithoutSkus emptying the ledger
WithoutSkus_ClearsLedger(ledger, selected) ==
    SelectSeq(ledger, LAMBDA e : FALSE)

\* line 832 and line 852: the ledger without the entries of the selected SKUs
WithoutSkus(ledger, selected) ==
    SelectSeq(ledger, LAMBDA e : e.row["SKU"] \notin selected)

ledger_skus == {deleted_skus[i].row["SKU"] : i \in DOMAIN deleted_skus}

\* main, lines 808-847: "Restore Selected SKUs" with a non-empty selection
RestoreOf(selected_to_restore, logOrder) ==
    LET restore_rows == SelectSeq(ledger_rows(deleted_skus),
                                  LAMBDA r : r["SKU"] \in selected_to_restore)
        merged == MergeConflicts(full_inventory, restore_rows, loc_cols)
        joined == Reinsert(full_inventory, merged, restore_rows)
    IN  /\ now < MaxSteps
        /\ ~empty(full_inventory)
        /\ uploaded_file = <<>>
        /\ deleted_skus # <<>>
        /\ selected_to_restore # {}
        /\ selected_to_restore \subseteq ledger_skus
        /\ logOrder \in Orders(selected_to_restore)
        /\ full_inventory' = process_edited_df(joined, loc_cols)
        /\ deleted_skus' = WithoutSkus(deleted_skus, selected_to_restore)
        /\ change_log' = change_log \o LogEach(now, "Restore", logOrder)
        /\ now' = now + 1
        /\ last' = [NoOp EXCEPT !.op = "Restore", !.pre = full_inventory,
                                !.preLedger = deleted_skus,
                                !.sel = selected_to_restore, !.merged = joined,
                                !.dups = duplicated(process_edited_df(joined, loc_cols))]
        /\ UNCHANGED <<loc_cols, db, uploaded_file, session_state>>

\* PermanentDeleteOf logging the purge and leaving the ledger as it is
PermanentDeleteOf_KeepsLedger(selected_to_delete, logOrder) ==
    /\ now < MaxSteps
    /\ ~empty(full_inventory)
    /\ uploaded_file = <<>>
    /\ deleted_skus # <<>>
    /\ selected_to_delete # {}
    /\ selected_to_delete \subseteq ledger_skus
    /\ logOrder \in Orders(selected_to_delete)
    /\ change_log' = change_log \o LogEach(now, "Permanent Delete", logOrder)
    /\ now' = now + 1
    /\ last' = [NoOp EXCEPT !.op = "PermanentDelete", !.pre = full_inventory,
                            !.preLedger = deleted_skus, !.sel = selected_to_delete]
    /\ UNCHANGED <<full_inventory, loc_cols, deleted_skus, db, uploaded_file, session_state>>

\* main, lines 849-863: "Permanent Delete Selected SKUs" with a non-empty selection
PermanentDeleteOf(selected_to_delete, logOrder) ==
    /\ now < MaxSteps
    /\ ~empty(full_inventory)
    /\ uploaded_file = <<>>
    /\ deleted_skus # <<>>
    /\ selected_to_delete # {}
    /\ selected_to_delete \subseteq ledger_skus
    /\ logOrder \in Orders(selected_to_delete)
    /\ deleted_skus' = WithoutSkus(deleted_skus, selected_to_delete)
    /\ change_log' = change_log \o LogEach(now, "Permanent Delete", logOrder)
    /\ now' = now + 1
    /\ last' = [NoOp EXCEPT !.op = "PermanentDelete", !.pre = full_inventory,
                            !.preLedger = deleted_skus, !.sel = selected_to_delete]
    /\ UNCHANGED <<full_inventory, loc_cols, db, uploaded_file, session_state>>

\* ClearDeleted starting the change log afresh with its own entry
ClearDeleted_ResetsLog ==
    /\ now < MaxSteps
    /\ ~empty(full_inventory)
    /\ uploaded_file = <<>>
    /\ deleted_skus' = <<>>
    /\ change_log' = <<LogEntry(now, "Clear Deleted", NA, Num(Len(deleted_skus)))>>
    /\ now' = now + 1
    /\ last' = [NoOp EXCEPT !.op = "ClearDeleted", !.pre = full_inventory,
                            !.preLedger = deleted_skus]
    /\ UNCHANGED <<full_inventory, loc_cols, db, uploaded_file, session_state>>

\* main, lines 876-890: "Clear All Deleted SKUs (Permanent)"
ClearDeleted ==
    /\ now < MaxSteps
    /\ ~empty(full_inventory)
    /\ uploaded_file = <<>>
    /\ deleted_skus' = <<>>
    /\ change_log' = Append(change_log,
                            LogEntry(now, "Clear Deleted", NA, Num(Len(deleted_skus))))
    /\ now' = now + 1
    /\ last' = [NoOp EXCEPT !.op = "ClearDeleted", !.pre = full_inventory,
                            !.preLedger = deleted_skus]
    /\ UNCHANGED <<full_inventory, loc_cols, db, uploaded_file, session_state>>

\* ------------------------------------------------------------- the inputs
Sku(s) == Txt(s)

\* one row of an uploaded sheet that has every required column, one location
\* column, DELETED and QTY
SheetColumns == Range(required_cols) \cup {"21KCH2", "DELETED", "QTY"}

SheetRow(sku, loc, qty, del) ==
    [k \in SheetColumns |->
        CASE k = "SKU" -> sku
          [] k = "DESCR" -> Txt("item")
          [] k = "QTYHOLD" -> Num(1)
          [] k = "STDCUBE" -> Num(2)
          [] k = "QTYAVAILABLE" -> Num(3)
          [] k = "21KCH2" -> loc
          [] k = "DELETED" -> del
          [] k = "QTY" -> qty]

\* the rows drawn for a sheet of the session: a plain row, a row flagged deleted
\* whose QTY is not its location sum, a row with a padded SKU and a negative
\* location quantity
SheetRows ==
    { SheetRow(Sku(<<"A">>), Num(2), Num(2), Num(0)),
      SheetRow(Sku(<<"A">>), Num(1), Num(3), Num(2)),
      SheetRow(Sku(<<" ", "A">>), Num(-1), Num(3), Num(0)) }

SeqsUpTo(S, n) == UNION {[1..k -> S] : k \in 1..n}

Sheets == {[columns |-> SheetColumns, rows |-> rows] : rows \in SeqsUpTo(SheetRows, MaxRows)}

\* what st.data_editor can return for the table df (lines 680-703): rows removed,
\* one cell of an editable column changed (QTY and DELETED are disabled), or one
\* row added, whose cells are None except the SKU typed in
EditCells(col, locs) ==
    CASE col = "SKU" -> {NaN, Sku(<<>>), Sku(<<"A">>), Sku(<<"B">>)}
      [] col = "Status" -> {Active, Deleted}
      [] col \in Range(locs) -> {Num(0), Num(5)}
      [] OTHER -> {}

Snapshots(df, locs) ==
    LET idx == DOMAIN df.rows
        removed == {[columns |-> df.columns,
                     rows |-> SelectSeq([i \in idx |-> <<i, df.rows[i]>>],
                                        LAMBDA p : p[1] \in K)] : K \in SUBSET idx \ {idx}}
        unpair(d) == [columns |-> d.columns, rows |-> [i \in DOMAIN d.rows |-> d.rows[i][2]]]
        changed == UNION {{[df EXCEPT !.rows[i][col] = v] : v \in EditCells(col, locs)} :
                             i \in idx, col \in df.columns}
        fresh == CHOOSE n \in 1..(Len(df.rows) + 1) : \A i \in idx : df.rows[i]["rid"] # n
        new_row(sku) == [k \in df.columns \cup {"rid"} |->
                            IF k = "rid" THEN fresh ELSE IF k = "SKU" THEN sku ELSE NaN]
        added == {[df EXCEPT !.rows = Append(df.rows, new_row(sku))] :
                     sku \in {NaN, Sku(<<"A">>), Sku(<<"B">>)}}
    IN  {unpair(d) : d \in removed} \cup changed \cup added

\* a sheet without the columns cols
DropCols(file, cols) ==
    [columns |-> file.columns \ cols,
     rows |-> [i \in DOMAIN file.rows |->
                 [k \in file.columns \ cols |-> file.rows[i][k]]]]

\* sheets that lack the SKU column, or two other required columns
BadSheets ==
    {DropCols([columns |-> SheetColumns,
               rows |-> <<SheetRow(Sku(<<"A">>), Num(2), Num(2), Num(0))>>], cols) :
        cols \in {{"SKU"}, {"DESCR", "QTYHOLD"}}}

uploads == Cardinality({i \in DOMAIN change_log : change_log[i].action = "Upload"})

\* the user puts a sheet into the uploader (lines 556-560) and the script runs
Upload ==
    /\ now < MaxSteps
    /\ uploads < MaxUploads
    /\ \E file \in Sheets : <<file>> # uploaded_file /\ UploadOf(file)

\* line 579: st.rerun() starts the script again; st.file_uploader still returns
\* the sheet, so the block of lines 562-580 runs on it once more
Rerun ==
    /\ now < MaxSteps
    /\ uploads < MaxUploads
    /\ uploaded_file # <<>>
    /\ UploadOf(uploaded_file[1])

\* the user takes the sheet out of the uploader: the next run finds
\* uploaded_file None (line 562) and goes on to the page
RemoveFile ==
    /\ uploaded_file # <<>>
    /\ uploaded_file' = <<>>
    /\ UNCHANGED <<full_inventory, loc_cols, deleted_skus, change_log, now, last, db,
                   session_state>>

UploadFails ==
    /\ now < MaxSteps
    /\ \E file \in BadSheets : <<file>> # uploaded_file /\ UploadFailsOf(file)

Edit ==
    /\ now < MaxSteps
    /\ ~empty(full_inventory)
    /\ \E edited \in Snapshots(full_inventory, loc_cols) :
          \E delOrder \in Orders(sku_set(full_inventory) \ sku_set(edited)),
             addOrder \in Orders(sku_set(edited) \ sku_set(full_inventory)) :
              EditOf(edited, delOrder, addOrder)

Restore ==
    /\ now < MaxSteps
    /\ \E sel \in SUBSET ledger_skus :
          \E logOrder \in Orders(sel) : RestoreOf(sel, logOrder)

PermanentDelete ==
    /\ now < MaxSteps
    /\ \E sel \in SUBSET ledger_skus :
          \E logOrder \in Orders(sel) : PermanentDeleteOf(sel, logOrder)

Next ==
    \/ Upload \/ Rerun \/ RemoveFile \/ UploadFails
    \/ Edit \/ Restore \/ PermanentDelete \/ ClearDeleted

Spec == Init /\ [][Next]_vars

\* ------------------------------------------- the reconcile functions alone
\* SpecReconcile applies the two reconcile functions as pure functions: one
\* upload of a sheet drawn from a wider family (optional columns present or
\* not, cells missing, textual, negative, SKUs padded or blank), then up to
\* MaxPasses passes of process_edited_df over a table the data editor can
\* return for the current one, the call of lines 760-761.
WideCells(col) ==
    CASE col = "SKU" -> {NaN, Sku(<<"A">>), Sku(<<" ", "A", " ">>), Sku(<<" ">>)}
      [] col = "DESCR" -> {Txt("item")}
      [] col = "QTYHOLD" -> {Num(1)}
      [] col = "STDCUBE" -> {Txt("n/a")}
      [] col = "QTYAVAILABLE" -> {NaN}
      [] col = "QTY" -> {NaN, Num(3), Num(-1)}
      [] col = "DELETED" -> {NaN, Num(1), Num(2)}
      [] OTHER -> {Txt("?"), Num(-1), Num(2)}

\* every row over the columns cols (a sequence), cell by cell
RECURSIVE WideRows(_)
WideRows(cols) ==
    IF cols = <<>> THEN {<<>>}
    ELSE {(Head(cols) :> c) @@ r : c \in WideCells(Head(cols)), r \in WideRows(Tail(cols))}

WideColumns ==
    {required_cols \o opt \o SubSeq(known_loc_cols, 1, k) :
        opt \in {<<>>, <<"QTY">>, <<"DELETED">>, <<"QTY", "DELETED">>}, k \in 0..MaxLocs}

WideSheets ==
    UNION {{[columns |-> Range(cols), rows |-> rows] :
               rows \in SeqsUpTo(WideRows(cols), MaxWideRows)} : cols \in WideColumns}

WideUpload == now = 0 /\ \E file \in WideSheets : UploadOf(file)

\* lines 760-761: process_edited_df over the edited table, the result stored
\* main, lines 590-616 and 931-934: a script run with the sidebar filters given
\* renders the validation alert: validate_data over the filtered view, and, when
\* the count is positive, the count and the first five SKUs
ViewOf(status_filter, location_filter) ==
    LET display_inventory ==
            apply_filters(full_inventory, status_filter, location_filter, loc_cols)
        res == validate_data(display_inventory, loc_cols)
    IN  /\ ~empty(full_inventory)
        /\ uploaded_file = <<>>
        /\ last' = [NoOp EXCEPT !.op = "View", !.pre = full_inventory,
                                !.preLedger = deleted_skus,
                                !.status_filter = status_filter,
                                !.location_filter = location_filter,
                                !.alert = IF res.count > 0
                                          THEN [count |-> res.count,
                                                rows |-> SubSeq(res.rows, 1,
                                                    IF res.count < 5 THEN res.count ELSE 5)]
                                          ELSE [count |-> 0, rows |-> <<>>]]
        /\ UNCHANGED <<full_inventory, loc_cols, deleted_skus, change_log, now, db, uploaded_file, session_state>>

View ==
    \E status_filter \in {"All", "Active", "Deleted"}, S \in SUBSET Range(loc_cols) :
        ViewOf(status_filter, SelectSeq(loc_cols, LAMBDA c : c \in S))

ReconcileOf(edited) ==
    /\ uploaded_file = <<>>
    /\ full_inventory' = process_edited_df(edited, loc_cols)
    /\ now' = now + 1
    /\ last' = [NoOp EXCEPT !.op = "Reconcile", !.pre = full_inventory,
                            !.preLedger = deleted_skus, !.edited = edited,
                            !.dups = duplicated(process_edited_df(edited, loc_cols))]
    /\ UNCHANGED <<loc_cols, deleted_skus, change_log, db, uploaded_file, session_state>>

Reconcile ==
    /\ now < 1 + MaxPasses
    /\ ~empty(full_inventory)
    /\ \E edited \in Snapshots(full_inventory, loc_cols) : ReconcileOf(edited)

NextReconcile == WideUpload \/ RemoveFile \/ Reconcile \/ View

SpecReconcile == Init /\ [][NextReconcile]_vars

\* ------------------------------------------- the persisted app: its runs
\* the SKUs and the quantities the runs are drawn from
AppSkus == {"A", "B"}
AppQtys == {Num(1), Num(2), Txt("x")}

\* a row of an uploaded workbook: a SKU text, a quantity cell that is a number
\* or a text that is none
AppRows ==
    {[c \in Range(upload_required_cols) |->
         IF c = "SKU" THEN Txt(s) ELSE IF c = "QTYAVAILABLE" THEN q ELSE Txt(c)] :
     s \in AppSkus, q \in AppQtys}

\* workbooks with every asked-for column, and one that lacks QTYAVAILABLE
AppSheets ==
    {[columns |-> upload_required_cols, rows |-> rows] :
        rows \in SeqsUpTo(AppRows, MaxAppRows)}
    \cup {[columns |-> <<"SKU", "Description", "Location">>,
           rows |-> <<[c \in {"SKU", "Description", "Location"} |-> Txt(c)]>>]}

\* app.py, lines 792-801: the add-item form is submitted with a SKU; in this
\* run the delete button is not clicked, so line 772 resets confirm_delete
AddItemOf(user_id, new_sku, new_qty) ==
    LET res == add_inventory_item(db, user_id, new_sku, new_qty)
    IN  /\ now < MaxAppSteps
        /\ db' = res.db
        /\ now' = now + 1
        /\ last' = [NoOp EXCEPT !.op = "AddItem", !.user_id = user_id,
                                !.preDb = db, !.ok = res.ok,
                                !.shown = [error |-> IF res.ok THEN "" ELSE "Failed to add item",
                                           columns |-> <<>>]]
        /\ session_state' = [session_state EXCEPT ![user_id].confirm_delete = FALSE]
        /\ UNCHANGED <<full_inventory, loc_cols, deleted_skus, change_log, uploaded_file>>

AddItem ==
    \E user_id \in AppUsers, new_sku \in AppSkus, new_qty \in {1, 2} :
        AddItemOf(user_id, new_sku, new_qty)

\* app.py, lines 840-862: "Process Uploaded File" with a workbook chosen
ProcessUploadedFileOf(user_id, file) ==
    LET res == process_uploaded_file(db, user_id, file)
    IN  /\ now < MaxAppSteps
        /\ db' = res.db
        /\ now' = now + 1
        /\ last' = [NoOp EXCEPT !.op = "ProcessUploadedFile", !.user_id = user_id,
                                !.preDb = db, !.edited = file,
                                !.shown = [error |-> res.error, columns |-> <<>>],
                                !.success_count = res.success_count]
        /\ session_state' = [session_state EXCEPT ![user_id].confirm_delete = FALSE]
        /\ UNCHANGED <<full_inventory, loc_cols, deleted_skus, change_log, uploaded_file>>

ProcessUploadedFile ==
    \E user_id \in AppUsers, file \in AppSheets : ProcessUploadedFileOf(user_id, file)

\* update_inventory_item called for a user with an item id, a sku and a quantity
UpdateInventoryItemOf(user_id, item_id, sku, qty_available) ==
    LET res == update_inventory_item(db, user_id, item_id, sku, qty_available)
    IN  /\ now < MaxAppSteps
        /\ db' = res.db
        /\ now' = now + 1
        /\ last' = [NoOp EXCEPT !.op = "UpdateInventoryItem", !.user_id = user_id,
                                !.preDb = db, !.item_id = item_id, !.ok = res.ok]
        /\ UNCHANGED <<full_inventory, loc_cols, deleted_skus, change_log, uploaded_file,
                       session_state>>

UpdateInventoryItem ==
    \E user_id \in AppUsers, item_id \in 1..MaxAppSteps,
       sku \in AppSkus, qty_available \in {1, 2} :
        UpdateInventoryItemOf(user_id, item_id, sku, qty_available)

\* delete_inventory_item called for a user with an item id
DeleteInventoryItemOf(user_id, item_id) ==
    LET res == delete_inventory_item(db, user_id, item_id)
    IN  /\ now < MaxAppSteps
        /\ db' = res.db
        /\ now' = now + 1
        /\ last' = [NoOp EXCEPT !.op = "DeleteInventoryItem", !.user_id = user_id,
                                !.preDb = db, !.item_id = item_id, !.ok = res.ok]
        /\ UNCHANGED <<full_inventory, loc_cols, deleted_skus, change_log, uploaded_file,
                       session_state>>

DeleteInventoryItem ==
    \E user_id \in AppUsers, item_id \in 1..MaxAppSteps :
        DeleteInventoryItemOf(user_id, item_id)

\* app.py, lines 887-897: the button "Clear All Logs (Admin Only)" is drawn for
\* a user whose role is admin; st.warning returns an element, which is true, so
\* the click clears at once
ClearAllLogsOf(user_id) ==
    /\ now < MaxAppSteps
    /\ user_role(user_id) = "admin"
    /\ db.logs # <<>>
    /\ db' = clear_all_logs(db, user_id)
    /\ now' = now + 1
    /\ last' = [NoOp EXCEPT !.op = "ClearAllLogs", !.user_id = user_id, !.preDb = db]
    /\ session_state' = [session_state EXCEPT ![user_id].confirm_delete = FALSE]
    /\ UNCHANGED <<full_inventory, loc_cols, deleted_skus, change_log, uploaded_file>>

ClearAllLogs == \E user_id \in AppUsers : ClearAllLogsOf(user_id)

\* the values st_dataframe_selection is given by a run: no row, or one row,
\* whose number line 740 takes for the id of the selected item
Selections == {<<>>} \cup {<<k>> : k \in 1..MaxAppSteps}

\* a run of the Inventory Management tab with that selection in which the
\* delete button is not clicked (lines 739-740, 771-772)
SelectRowOf(user_id, rows) ==
    /\ now < MaxRuns
    /\ session_state[user_id].st_dataframe_selection # rows
    /\ now' = now + 1
    /\ session_state' = [session_state EXCEPT
                            ![user_id] = [confirm_delete |-> FALSE,
                                          st_dataframe_selection |-> rows]]
    /\ last' = [NoOp EXCEPT !.op = "SelectRow", !.user_id = user_id, !.preDb = db]
    /\ UNCHANGED <<full_inventory, loc_cols, deleted_skus, change_log, db,
                   uploaded_file>>

SelectRow == \E user_id \in AppUsers, rows \in Selections : SelectRowOf(user_id, rows)

\* ClickDeleteOf deleting on the first click
ClickDeleteOf_NoConfirm(user_id) ==
    LET selected_item_id == session_state[user_id].st_dataframe_selection[1]
        res == delete_inventory_item(db, user_id, selected_item_id)
    IN  /\ now < MaxRuns
        /\ session_state[user_id].st_dataframe_selection # <<>>
        /\ now' = now + 1
        /\ db' = res.db
        /\ session_state' = IF res.ok THEN [session_state EXCEPT ![user_id] = NewSession]
                            ELSE session_state
        /\ last' = [NoOp EXCEPT !.op = "ClickDelete", !.user_id = user_id,
                                !.preDb = db, !.item_id = selected_item_id,
                                !.ok = res.ok]
        /\ UNCHANGED <<full_inventory, loc_cols, deleted_skus, change_log,
                       uploaded_file>>

\* app.py, lines 757-772: "Delete Selected Item" is clicked; the button is
\* enabled when a row is selected.  With confirm_delete set the item is deleted
\* and, when that worked, the flag and the selection are reset; without it the
\* warning is shown and the flag set
ClickDeleteOf(user_id) ==
    LET selected_item_id == session_state[user_id].st_dataframe_selection[1]
        res == delete_inventory_item(db, user_id, selected_item_id)
    IN  /\ now < MaxRuns
        /\ session_state[user_id].st_dataframe_selection # <<>>
        /\ now' = now + 1
        /\ IF session_state[user_id].confirm_delete
           THEN /\ db' = res.db
                /\ session_state' =
                       IF res.ok THEN [session_state EXCEPT ![user_id] = NewSession]
                       ELSE session_state
                /\ last' = [NoOp EXCEPT !.op = "ClickDelete", !.user_id = user_id,
                                        !.preDb = db, !.item_id = selected_item_id,
                                        !.ok = res.ok]
           ELSE /\ db' = db
                /\ session_state' = [session_state EXCEPT ![user_id].confirm_delete = TRUE]
                /\ last' = [NoOp EXCEPT !.op = "ClickDelete", !.user_id = user_id,
                                        !.preDb = db, !.item_id = selected_item_id,
                                        !.ok = FALSE,
                                        !.shown = [error |-> "Click again to confirm",
                                                   columns |-> <<>>]]
        /\ UNCHANGED <<full_inventory, loc_cols, deleted_skus, change_log,
                       uploaded_file>>

ClickDelete == \E user_id \in AppUsers : ClickDeleteOf(user_id)

\* the state of the app before its first run: the tables are empty; line 317
\* asks streamlit for UniqueConstraint, which streamlit does not have, and line
\* 255 does not import sqlalchemy's, so the source does not settle whether the
\* inventory table carries the constraint: both cases are taken
InitApp ==
    /\ full_inventory = EmptyDF
    /\ loc_cols = <<>>
    /\ deleted_skus = <<>>
    /\ change_log = <<>>
    /\ now = 0
    /\ last = NoOp
    /\ db \in {[EmptyDB EXCEPT !.user_sku_uc = b] : b \in BOOLEAN}
    /\ uploaded_file = <<>>
    /\ session_state = [u \in AppUsers |-> NewSession]

NextApp ==
    \/ AddItem \/ UpdateInventoryItem \/ DeleteInventoryItem
    \/ ProcessUploadedFile \/ ClearAllLogs

SpecApp == InitApp /\ [][NextApp]_vars

\* the add, update and delete operations alone
NextCrud == AddItem \/ UpdateInventoryItem \/ DeleteInventoryItem

SpecCrud == InitApp /\ [][NextCrud]_vars

\* the Inventory Management tab: items are added, rows selected, the delete
\* button clicked
NextDelete == AddItem \/ SelectRow \/ ClickDelete

SpecDelete == InitApp /\ [][NextDelete]_vars

\* ------------------------------------------------------------ properties
RowsOf(df) == Range(df.rows)

\* a SKU cell that is missing, empty or whitespace-only
blank(c) == isna(c) \/ strip(text(c)) = <<>>

\* the ledger rows a restore of the SKUs sel works on
RestoreRows(ledger, sel) == SelectSeq(ledger_rows(ledger), LAMBDA r : r["SKU"] \in sel)

\* the SKUs of the last restore that took the merge path
Conflicting == last.sel \cap skus_of(last.pre)

\* where row i of the table handed to process_edited_df lands in its result:
\* rows with a blank SKU are dropped, the others keep their order
PostOf(df, i) == Cardinality({j \in 1..i : ~blank(df.rows[j]["SKU"])})

MergedCols == {"QTY", "QTYHOLD", "STDCUBE", "QTYAVAILABLE"} \cup Range(loc_cols)

\* C1: after reconcile, by the upload path or by the edit path, no row of the
\* table has a missing, empty or whitespace-only SKU.
C1_NoBlankSku == \A r \in RowsOf(full_inventory) : ~blank(r["SKU"])

\* C2: after reconcile every row has QTY >= 0 and every location quantity >= 0.
C2_NonNegative ==
    \A r \in RowsOf(full_inventory) :
        /\ num(r["QTY"]) >= 0
        /\ \A c \in Range(loc_cols) : num(r[c]) >= 0

\* C3: in every reachable state of the active table each row has DELETED in
\* {0,1} and has Status = Deleted exactly when DELETED = 1.
C3_FlagStatusLockstep ==
    \A r \in RowsOf(full_inventory) :
        /\ r["DELETED"] \in {Num(0), Num(1)}
        /\ r["Status"] \in {Active, Deleted}
        /\ (r["Status"] = Deleted) <=> (r["DELETED"] = Num(1))

\* a restore left a row flagged by the merge or the zero-quantity rule beside an
\* Active one
C3_Witness ==
    /\ last.op = "Restore"
    /\ \E r, q \in RowsOf(full_inventory) :
          /\ r["Status"] = Deleted /\ r["DELETED"] = Num(1)
          /\ q["Status"] = Active /\ q["DELETED"] = Num(0)

\* the rows of the table before an edit that the edited snapshot omits, or keeps
\* with a blanked SKU
Gone(pre, edited) ==
    {r \in RowsOf(pre) :
        ~\E q \in RowsOf(edited) : q["rid"] = r["rid"] /\ ~blank(q["SKU"])}

C6_ReinsertedRowIdentical ==
    last.op = "Restore" =>
        \A i \in DOMAIN last.preLedger :
            LET r == last.preLedger[i].row
            IN  (r["SKU"] \in last.sel \ Conflicting) =>
                    /\ r \in RowsOf(full_inventory)
                    /\ r["SKU"] \notin ledger_skus

\* C7: on the merge path, a ledger record with DELETED = 1 leaves the merged row
\* Deleted with DELETED = 1 after the restore; with DELETED = 0 the merge itself
\* (before the table is re-processed) leaves DELETED and Status as they were.
C7_MergeDeletedFlag ==
    last.op = "Restore" =>
        \A i \in DOMAIN last.pre.rows :
            LET a == last.pre.rows[i]
                l == FirstWithSku(RestoreRows(last.preLedger, last.sel), a["SKU"])
                m == full_inventory.rows[PostOf(last.merged, i)]
            IN  (a["SKU"] \in Conflicting /\ ~blank(a["SKU"])) =>
                    /\ l["DELETED"] = Num(1) =>
                          m["Status"] = Deleted /\ m["DELETED"] = Num(1)
                    /\ l["DELETED"] = Num(0) =>
                          /\ last.merged.rows[i]["DELETED"] = a["DELETED"]
                          /\ last.merged.rows[i]["Status"] = a["Status"]

\* an Active row with stock was merged with a ledger record flagged deleted
C7_Witness ==
    /\ last.op = "Restore"
    /\ \E i \in DOMAIN last.pre.rows :
          LET a == last.pre.rows[i]
              l == FirstWithSku(RestoreRows(last.preLedger, last.sel), a["SKU"])
              m == full_inventory.rows[PostOf(last.merged, i)]
          IN  /\ a["SKU"] \in Conflicting
              /\ a["Status"] = Active /\ num(a["QTY"]) > 0
              /\ l["DELETED"] = Num(1)
              /\ m["Status"] = Deleted /\ num(m["QTY"]) > 0

\* C8: after a restore of the SKUs sel the ledger holds no entry of a SKU in
\* sel, and the entries of the other SKUs are the same entries in the same order.
C8_RestoreLedgerFrame ==
    last.op = "Restore" =>
        /\ \A i \in DOMAIN deleted_skus : deleted_skus[i].row["SKU"] \notin last.sel
        /\ deleted_skus =
              SelectSeq(last.preLedger, LAMBDA e : e.row["SKU"] \notin last.sel)

\* a restore on the merge path that removed entries and left others
C8_Witness ==
    /\ last.op = "Restore"
    /\ Conflicting # {}
    /\ deleted_skus # <<>>
    /\ Len(deleted_skus) < Len(last.preLedger)

\* C9: a reconciled table has no row with QTY = 0 that is Active or has
\* DELETED = 0.
C9_ZeroQuantityDeactivated ==
    \A r \in RowsOf(full_inventory) :
        num(r["QTY"]) = 0 => r["Status"] = Deleted /\ r["DELETED"] = Num(1)

\* a row uploaded without a deleted flag came out with QTY = 0 and Deleted
C9_Witness ==
    /\ last.op = "Upload"
    /\ \E r \in RowsOf(full_inventory) :
          LET f == last.edited.rows[r["rid"]]
          IN  /\ "DELETED" \in last.edited.columns => f["DELETED"] = NaN
              /\ num(r["QTY"]) = 0
              /\ r["Status"] = Deleted /\ r["DELETED"] = Num(1)

\* C10: a pass of process_edited_df over an edited table leaves Deleted every
\* row that had DELETED = 1 before the edit, whatever the edit did to its
\* quantities or its Status cell.
C10_DeactivationOneWay ==
    last.op = "Reconcile" =>
        \A r \in RowsOf(last.pre) : \A q \in RowsOf(full_inventory) :
            (q["rid"] = r["rid"] /\ r["DELETED"] = Num(1)) =>
                q["Status"] = Deleted /\ q["DELETED"] = Num(1)

\* a row Deleted with QTY = 0 was given stock and its Status cell or a location
\* cell edited, and stayed Deleted with QTY > 0
C10_Witness ==
    /\ last.op = "Reconcile"
    /\ \E r \in RowsOf(last.pre) : \E q \in RowsOf(full_inventory) :
          /\ q["rid"] = r["rid"]
          /\ r["DELETED"] = Num(1) /\ num(r["QTY"]) = 0
          /\ num(q["QTY"]) > 0
          /\ q["Status"] = Deleted

\* C11: a second pass of process_edited_df over its own output, with the same
\* location columns, gives exactly that output.
C11_ReconcileIdempotent ==
    last.op = "Reconcile" =>
        process_edited_df(full_inventory, loc_cols) = full_inventory

\* the first pass dropped a row, rewrote a SKU or a quantity or a flag, and rows
\* are left for the second pass
C11_Witness ==
    /\ last.op = "Reconcile"
    /\ full_inventory.rows # <<>>
    /\ full_inventory # last.edited
    /\ \E r \in RowsOf(full_inventory) : num(r["QTY"]) > 0
    /\ \E r \in RowsOf(last.edited) : blank(r["SKU"])

IsPrefix(s, t) == Len(s) <= Len(t) /\ SubSeq(t, 1, Len(s)) = s

\* the positions of the change log that hold an entry of the given action
EntriesOf(action) == {i \in DOMAIN change_log : change_log[i].action = action}

\* C12: the change log before any step of the session is a prefix of the change
\* log after it: no entry is removed, modified or reordered.
C12_LogAppendOnly == [][IsPrefix(change_log, change_log')]_vars

\* an upload, a deletion in the editor and a restore were logged in that order
C12_Witness ==
    \E i \in EntriesOf("Upload"), j \in EntriesOf("Delete"), k \in EntriesOf("Restore") :
        i < j /\ j < k

\* the entries a step appended to the change log
Appended == SubSeq(change_log', Len(change_log) + 1, Len(change_log'))

\* the entries of the given action among those a step appended
AppendedOf(action) == SelectSeq(Appended, LAMBDA e : e.action = action)

\* the entries of log are one per SKU of S, each naming its SKU
OnePerSku(log, S) ==
    /\ Len(log) = Cardinality(S)
    /\ {log[i].SKU : i \in DOMAIN log} = S

\* C13 as claimed: a step that changes the ledger appends exactly one entry for
\* it to the change log (for an edit, one Delete entry), also when it works on
\* several SKUs.
C13_OneEntryPerLedgerChange ==
    [][deleted_skus' # deleted_skus =>
          Len(IF last'.op = "Edit" THEN AppendedOf("Delete") ELSE Appended) = 1]_vars

\* C13 as amended: a step that changes the ledger appends, in that step, one
\* Delete entry per SKU that left the editor, or one Restore entry per restored
\* SKU, or one Permanent Delete entry per purged SKU (each naming its SKU), or
\* the single Clear Deleted entry with the number of entries purged, or, for
\* the reset on upload, the single Upload entry.
C13_EntriesPerLedgerChange ==
    [][deleted_skus' # deleted_skus =>
          CASE last'.op = "Edit" ->
                  /\ sku_set(last'.pre) \ sku_set(last'.edited) # {}
                  /\ OnePerSku(AppendedOf("Delete"),
                               sku_set(last'.pre) \ sku_set(last'.edited))
            [] last'.op = "Restore" ->
                  /\ Appended = AppendedOf("Restore")
                  /\ OnePerSku(Appended, last'.sel)
            [] last'.op = "PermanentDelete" ->
                  /\ Appended = AppendedOf("Permanent Delete")
                  /\ OnePerSku(Appended, last'.sel)
            [] last'.op = "ClearDeleted" ->
                  Appended = <<LogEntry(now, "Clear Deleted", NA, Num(Len(deleted_skus)))>>
            [] last'.op = "Upload" ->
                  /\ Len(Appended) = 1
                  /\ Appended[1].action = "Upload"
            [] OTHER -> FALSE]_vars

\* one edit moved the rows of two SKUs to the ledger and logged two Delete entries
C13_Witness ==
    /\ last.op = "Edit"
    /\ Len(deleted_skus) >= Len(last.preLedger) + 2
    /\ \E i, j \in EntriesOf("Delete") :
          /\ i < j
          /\ change_log[i].timestamp = change_log[j].timestamp
          /\ change_log[i].SKU # change_log[j].SKU

\* the rows an edit hands to the ledger: the rows of the table before the edit
\* whose SKU the edited table no longer has
Recorded(pre, edited) ==
    SelectSeq(pre.rows, LAMBDA r : r["SKU"] \in sku_set(pre) \ sku_set(edited))

\* C14: after an edit recorded n rows, the ledger is the ledger before it
\* followed by exactly those n rows, in table order, each with the time of the
\* edit as deleted_timestamp; entries already there are kept, also those of the
\* same SKU.
C14_RecordDeletionAppends ==
    last.op = "Edit" =>
        LET rec == Recorded(last.pre, last.edited)
        IN  deleted_skus = last.preLedger \o
                [i \in DOMAIN rec |-> [row |-> rec[i], deleted_timestamp |-> now - 1]]

\* a SKU that already had a ledger entry was recorded again, and both entries
\* are in the ledger
C14_Witness ==
    /\ last.op = "Edit"
    /\ Len(deleted_skus) > Len(last.preLedger)
    /\ \E i \in DOMAIN last.preLedger :
          \E j \in (Len(last.preLedger) + 1)..Len(deleted_skus) :
              /\ deleted_skus[i].row["SKU"] = deleted_skus[j].row["SKU"]
              /\ deleted_skus[i].deleted_timestamp < deleted_skus[j].deleted_timestamp

\* C15: after an upload, QTY of a row is the location sum when the sheet has no
\* QTY column or the row's QTY cell is missing, and the supplied value
\* otherwise, clipped at 0 in each case.
C15_UploadQtyBackfill ==
    last.op = "Upload" =>
        \A r \in RowsOf(full_inventory) :
            LET f == last.edited.rows[r["rid"]]
                given == "QTY" \in last.edited.columns /\ ~isna(to_numeric(f["QTY"]))
            IN  num(r["QTY"]) = clip_lower(IF given THEN num(f["QTY"])
                                           ELSE SumCols(r, loc_cols), 0)

\* C16: an upload of a sheet that lacks required columns leaves the active
\* table, the location columns, the ledger and the change log as they were, and
\* shows an error that names the missing columns.
C16_FailedUploadNamesColumns ==
    [][last'.op = "UploadFailed" =>
          /\ UNCHANGED <<full_inventory, loc_cols, deleted_skus, change_log>>
          /\ last'.shown.error = "Missing required columns"
          /\ last'.shown.columns =
                SelectSeq(required_cols, LAMBDA c : c \notin last'.edited.columns)]_vars

\* the table the last reconcile worked on, and its rows that have a SKU
ReconcileInput ==
    CASE last.op = "Upload" -> Marked(last.edited)
      [] last.op = "Restore" -> last.merged
      [] OTHER -> last.edited

HasSku(r) == IF last.op = "Upload" THEN ~isna(r["SKU"]) ELSE ~blank(r["SKU"])

Rids(rows) == [i \in DOMAIN rows |-> rows[i]["rid"]]

\* C17: the duplicate count a reconcile reports (upload, or process_edited_df at
\* a restore or over an edited table) is the number of rows of the resulting
\* table whose SKU already occurred in an earlier row, that is the number of
\* rows less the number of distinct SKUs; and every input row that has a SKU,
\* duplicates included, is in the resulting table, in order.
C17_DuplicatesCountedAndKept ==
    last.op \in {"Upload", "Restore", "Reconcile"} =>
        /\ last.dups = Len(full_inventory.rows) - Cardinality(skus_of(full_inventory))
        /\ Rids(full_inventory.rows) = Rids(SelectSeq(ReconcileInput.rows, HasSku))

\* two uploaded rows with the same SKU: a count of 1 and both rows in the table
C17_Witness ==
    /\ last.op = "Upload"
    /\ last.dups = 1
    /\ Len(full_inventory.rows) = 2
    /\ full_inventory.rows[1]["SKU"] = full_inventory.rows[2]["SKU"]

\* the rows of the active table whose location sum exceeds QTYAVAILABLE
Violating == {r \in RowsOf(full_inventory) : SumCols(r, loc_cols) > num(r["QTYAVAILABLE"])}

\* C18: whatever the filters of the script run, the validation alert reports
\* every row of the active table whose location sum exceeds QTYAVAILABLE, with
\* its SKU, its location sum and its QTYAVAILABLE.
C18_ViolationsReportedUnfiltered ==
    last.op = "View" =>
        \A r \in Violating :
            \E i \in DOMAIN last.alert.rows :
                LET e == last.alert.rows[i]
                IN  /\ e.SKU = r["SKU"]
                    /\ {"sum_loc", "QTYAVAILABLE"} \subseteq DOMAIN e
                    /\ e.sum_loc = SumCols(r, loc_cols)
                    /\ e.QTYAVAILABLE = num(r["QTYAVAILABLE"])

\* the ledger entry e was in the ledger when a later step purged it: a permanent
\* delete of its SKU or a clear-all is logged after its deleted_timestamp
Purged(e) ==
    \E i \in DOMAIN change_log :
        /\ change_log[i].timestamp > e.deleted_timestamp
        /\ \/ change_log[i].action = "Clear Deleted"
           \/ change_log[i].action = "Permanent Delete" /\ change_log[i].SKU = e.row["SKU"]

\* C19: a permanent delete of the SKUs sel leaves no ledger entry of a SKU in
\* sel and the active table as it was; clear-all leaves the ledger empty, logs
\* the number of entries purged and leaves the active table as it was; a purged
\* entry is in no later ledger, and the rows a restore adds to the active table
\* are rows of entries of the ledger it started from.
C19_PurgeIsFinal ==
    /\ last.op = "PermanentDelete" =>
          /\ \A i \in DOMAIN deleted_skus : deleted_skus[i].row["SKU"] \notin last.sel
          /\ full_inventory = last.pre
    /\ last.op = "ClearDeleted" =>
          /\ deleted_skus = <<>>
          /\ change_log[Len(change_log)] =
                LogEntry(now - 1, "Clear Deleted", NA, Num(Len(last.preLedger)))
          /\ full_inventory = last.pre
    /\ \A i \in DOMAIN deleted_skus : ~Purged(deleted_skus[i])
    /\ last.op = "Restore" =>
          \A i \in (Len(last.pre.rows) + 1)..Len(last.merged.rows) :
              \E j \in DOMAIN last.preLedger :
                  /\ last.preLedger[j].row = last.merged.rows[i]
                  /\ last.preLedger[j].row["SKU"] \in last.sel
                  /\ ~Purged(last.preLedger[j])

\* after a permanent delete of one SKU, a restore of another SKU changed the
\* active table and emptied the ledger
C19_Witness ==
    /\ last.op = "Restore"
    /\ EntriesOf("Permanent Delete") # {}
    /\ full_inventory # last.pre
    /\ deleted_skus = <<>>

\* the (sku, qty_available) pairs a user has stored, in the order of the table
Stored(d, user_id) ==
    [i \in DOMAIN load_inventory_data(d, user_id) |->
        <<load_inventory_data(d, user_id)[i].sku,
          load_inventory_data(d, user_id)[i].qty_available>>]

\* the (SKU, QTYAVAILABLE) pairs of the rows of a workbook, in its order
Offered(file) ==
    [i \in DOMAIN file.rows |-> <<text(file.rows[i]["SKU"]), file.rows[i]["QTYAVAILABLE"]>>]

\* C20: after "Process Uploaded File" the user's stored inventory is either the
\* whole uploaded table or the inventory the user had before; it is never left
\* cleared or partly loaded.
C20_UploadAllOrNothing ==
    last.op = "ProcessUploadedFile" =>
        \/ Stored(db, last.user_id) = Stored(last.preDb, last.user_id)
        \/ /\ last.shown.error = ""
           /\ [i \in DOMAIN Stored(db, last.user_id) |->
                  <<Stored(db, last.user_id)[i][1], Num(Stored(db, last.user_id)[i][2])>>]
              = Offered(last.edited)

\* C22: after an edit step and after a restore step each Active row of the
\* active table has QTY equal to the sum of its location quantities, clipped at
\* 0.
C22_QtyIsLocationSum ==
    last.op \in {"Edit", "Restore"} =>
        \A r \in RowsOf(full_inventory) :
            r["Status"] = Active => num(r["QTY"]) = clip_lower(SumCols(r, loc_cols), 0)

\* C23: when a sheet put into the uploader has been processed, the active table
\* is the reconciled sheet, the ledger is empty, and the change log is the log
\* as it was when the sheet was put in followed by exactly one Upload entry
\* (SKU N/A, the description carrying the row count).
C23_UploadReplacesAndLogsOnce ==
    last.op = "Upload" =>
        /\ full_inventory = process_uploaded_df(Marked(last.edited)).df
        /\ deleted_skus = <<>>
        /\ change_log = Append(last.log,
                               LogEntry(now - 1, "Upload", NA,
                                        Num(Len(full_inventory.rows))))

\* the SKU text of a row as the reconcile step leaves it (line 263), NaN aside
Key(c) == IF isna(c) THEN NaN ELSE Txt(strip(text(c)))

\* the total of column c over the rows that carry the SKU sku
RECURSIVE Total(_, _, _)
Total(rows, sku, c) ==
    IF rows = <<>> THEN 0
    ELSE (IF Key(Head(rows)["SKU"]) = Key(sku) /\ ~isna(Head(rows)[c])
          THEN num(Head(rows)[c]) ELSE 0) + Total(Tail(rows), sku, c)

\* C24: a restore conserves quantity: for every restored SKU and every
\* location column, the total over the active rows and the ledger entries of
\* that SKU is the same before and after the restore.
C24_RestoreConservesQuantity ==
    last.op = "Restore" =>
        \A sku \in last.sel, c \in Range(loc_cols) :
            Total(last.pre.rows, sku, c) + Total(ledger_rows(last.preLedger), sku, c)
            = Total(full_inventory.rows, sku, c) + Total(ledger_rows(deleted_skus), sku, c)

\* C25: the rows an edit step appends to the ledger are rows that the edited
\* snapshot omits (or keeps with no SKU, which the reconcile step drops); a row
\* the snapshot keeps under a SKU, with whatever cells changed, the SKU text
\* included, is not copied into the ledger.
C25_LedgerOnlyOmittedRows ==
    last.op = "Edit" =>
        \A i \in (Len(last.preLedger) + 1)..Len(deleted_skus) :
            \A j \in DOMAIN last.edited.rows :
                last.edited.rows[j]["rid"] = deleted_skus[i].row["rid"]
                    => blank(last.edited.rows[j]["SKU"])

\* C26: an edit step that appends rows to the ledger or entries to the change
\* log also installs the reconciled edited table as the active table.
C26_EditAtomic ==
    [][(last'.op = "Edit" /\ (deleted_skus' # deleted_skus \/ change_log' # change_log))
          => full_inventory' = process_edited_df(last'.edited, loc_cols)]_vars

\* C21: a step of the app removes or changes log entries only when it is the
\* clear-all-logs action of a user whose role is admin, and then it removes
\* exactly that user's entries; every other step, and so every step of a user
\* who is no admin, leaves the log as a prefix of the log after it.
C21_LogsRemovedOnlyByAdminClear ==
    [][\/ IsPrefix(db.logs, db'.logs)
       \/ /\ last'.op = "ClearAllLogs"
          /\ user_role(last'.user_id) = "admin"
          /\ db'.logs = SelectSeq(db.logs, LAMBDA e : e.user_id # last'.user_id)]_vars

\* the admin cleared the log while entries of another user were in it
C21_Witness ==
    /\ last.op = "ClearAllLogs"
    /\ db.logs # <<>>
    /\ Len(db.logs) < Len(last.preDb.logs)

\* the transactions recorded for a user's SKU, in the order of the table
TransactionsOf(d, user_id, sku) ==
    SelectSeq(d.transactions, LAMBDA t : t.user_id = user_id /\ t.sku = sku)

\* the sum of the IN quantity changes minus the sum of the OUT ones
RECURSIVE Net(_)
Net(ts) ==
    IF ts = <<>> THEN 0
    ELSE (IF Head(ts).type = "IN" THEN Head(ts).quantity_change
          ELSE 0 - Head(ts).quantity_change) + Net(Tail(ts))

\* C27: after any sequence of add, update and delete operations on a table
\* that keeps SKUs unique per user, every stored item has transactions recorded
\* for its SKU, its qty_available is their net (IN minus OUT) and is the
\* current_qty of the latest of them.
C27_QtyIsNetOfTransactions ==
    db.user_sku_uc =>
        \A i \in DOMAIN db.inventory :
            LET item == db.inventory[i]
                ts == TransactionsOf(db, item.user_id, item.sku)
            IN  /\ ts # <<>>
                /\ item.qty_available = Net(ts)
                /\ item.qty_available = ts[Len(ts)].current_qty

StoredFor(d, user_id) ==
    <<SelectSeq(d.inventory, LAMBDA e : e.user_id = user_id),
      SelectSeq(d.logs, LAMBDA e : e.user_id = user_id),
      SelectSeq(d.transactions, LAMBDA e : e.user_id = user_id)>>

\* the item id belongs to an item of a user other than user_id
ForeignItem(d, user_id, item_id) ==
    \E i \in DOMAIN d.inventory :
        d.inventory[i].id = item_id /\ d.inventory[i].user_id # user_id

\* C30: an operation performed for one user leaves the items, log entries and
\* transactions stored for every other user as they were, and an update or a
\* delete called with the id of another user's item returns False and changes
\* nothing.
C30_UserIsolation ==
    [][/\ \A other \in AppUsers \ {last'.user_id} :
             StoredFor(db', other) = StoredFor(db, other)
       /\ (/\ last'.op \in {"UpdateInventoryItem", "DeleteInventoryItem"}
           /\ last'.preDb = db
           /\ ForeignItem(db, last'.user_id, last'.item_id))
              => (~last'.ok /\ db' = db)]_vars

\* a delete was called with the id of an item of another user
C30_Witness ==
    /\ last.op = "DeleteInventoryItem"
    /\ ForeignItem(last.preDb, last.user_id, last.item_id)
    /\ ForeignItem(db, last.user_id, last.item_id)

\* C29: an item leaves the inventory only in a run in which the delete button
\* is clicked while the user's confirm flag is set and a row is selected; the
\* flag is set only by a click of the delete button, which deletes nothing in
\* that run; and every run of a user's session in which the delete button is
\* not clicked leaves that user's flag reset.
C29_DeleteNeedsConfirmedClick ==
    [][/\ Len(db'.inventory) < Len(db.inventory) =>
             /\ last'.op = "ClickDelete"
             /\ session_state[last'.user_id].confirm_delete
             /\ session_state[last'.user_id].st_dataframe_selection # <<>>
       /\ \A u \in AppUsers :
             (session_state'[u].confirm_delete /\ ~session_state[u].confirm_delete)
                => (last'.op = "ClickDelete" /\ last'.user_id = u /\ db' = db)
       /\ \A u \in AppUsers :
             (last'.op # "ClickDelete" /\ last'.user_id = u)
                => ~session_state'[u].confirm_delete]_vars

\* the second of two clicks on the delete button deleted the selected item
C29_Witness ==
    /\ last.op = "ClickDelete"
    /\ last.ok
    /\ Len(db.inventory) < Len(last.preDb.inventory)
    /\ ~session_state[last.user_id].confirm_delete

====
